---- MODULE Spec2Model ----
(***************************************************************************)
(* Authentication and session integrity of the user service (UserMS) and   *)
(* the role gate of the customer service (CustomerMS).                     *)
(*                                                                         *)
(* Requests are handled one at a time in Spec: every action is one whole   *)
(* request handler.  In SpecWorkers the calls of the workers interleave    *)
(* query by query.  Time is counted in minutes.  Every query a handler     *)
(* sends to the credential store, and every command it sends to the        *)
(* revocation registry, may fail on its own; the outcome is an input of    *)
(* the action.  In SpecOutage the Redis server is reachable or not, and    *)
(* the services are started again while it is in either state.             *)
(***************************************************************************)
EXTENDS Integers, Sequences, FiniteSets, TLC

\* ------------------------------------------------------------------ bounds
\* the clock runs from 0 to MaxTime in steps of TickStep minutes
MaxTime == 40
TickStep == 10
\* at most MaxLogins logins mint tokens, MaxRelogins where logins are
\* repeated
MaxLogins == 1
MaxRelogins == 2
\* REDIS_DB is set to a database number from 0 to MaxRedisDb
MaxRedisDb == 1
\* wrong-password attempts are counted up to MaxFailures
MaxFailures == 7

\* ------------------------------------------------------- program constants
MAX_LOGIN_ATTEMPTS == 5
MIN_PASSWORD_LENGTH == 8
ACCOUNT_LOCKOUT_DURATION == 30
JWT_ACCESS_TOKEN_EXPIRES == 15
JWT_REFRESH_TOKEN_EXPIRES == 10080
\* SQL NULL / Python None in a timestamp column
NULL == -1

JWT_SECRET_KEY == "jwt-secret-key-change-in-production"
Services == {"user", "customer"}

\* ------------------------------------------------------------------ inputs
AdminEmail == "admin@levels.sg"
DriverEmail == "driver@levels.sg"
FormerEmail == "former@levels.sg"
UnknownEmail == "nobody@levels.sg"
Emails == {AdminEmail, DriverEmail, FormerEmail, UnknownEmail}
AdminPassword == "password123"
Passwords == {AdminPassword, "wrongpassword"}
Roles == {"admin", "warehouse", "driver", "hq", "customer_service"}

VARIABLES
    users,          \* table users: email -> row
    sessions,       \* table user_sessions: set of rows
    registry,       \* the Redis key space: jti -> time at which the key expires
    redis_client,   \* per service: TRUE when the handle was created at start-up
    tokens,         \* every token minted so far
    uuids,          \* number of uuid4 values drawn so far
    now,            \* the clock, in minutes
    last,           \* the most recent request and its response
    wrongRun,       \* history: per email, length of the current run of
                    \* recorded wrong-password attempts that began with
                    \* login_attempts = 0 and no lock
    revoked,        \* history: jti -> time logout wrote its registry entry
    mintedFor,      \* history: jti -> email of the login that minted the token
    REDIS_DB,       \* Config.REDIS_DB of the user service, read at start-up
    registered,     \* history: email -> the registrations answered 201
    failures,       \* history: email -> wrong-password attempts that reached
                    \* check_password_hash since the last login answered 200
    inflight,       \* per worker: the call it is in the middle of
    lockedOut,      \* history: the emails for which a call served side by
                    \* side with others has been answered 423
    reachable       \* whether the Redis server answers (followed where an
                    \* outage begins and ends; elsewhere every command may
                    \* fail on its own)

vars == <<users, sessions, registry, redis_client, tokens, uuids, now, last,
          wrongRun, revoked, mintedFor, REDIS_DB, registered, failures,
          inflight, lockedOut, reachable>>

\* ----------------------------------------------------------- pure helpers
\* werkzeug: the stored verifier is a tagged digest of the plaintext
generate_password_hash(password) == <<"pbkdf2:sha256", password>>

check_password_hash(pwhash, password) ==
    /\ pwhash[1] = "pbkdf2:sha256"
    /\ pwhash[2] = password

\* the signature binds the claims to the signing key
Sign(claims, key) == <<"HS256", key, claims>>

EncodeToken(claims, key) == [claims |-> claims, sig |-> Sign(claims, key)]

Claim(claims, k) == IF k \in DOMAIN claims THEN claims[k] ELSE "None"

\* ------------------------------------------------------ credential store
\* mutant: a row answered from a copy of the table when the query fails
SelectUserByEmailStale(email, ok) ==
    IF email \in DOMAIN users THEN <<users[email]>> ELSE <<>>

\* DatabaseManager.execute_query with fetch='one': the row, or None when the
\* connection or the query fails (ok = FALSE) or no row matches
SelectUserByEmail(email, ok) ==
    IF ok /\ email \in DOMAIN users THEN <<users[email]>> ELSE <<>>

SelectUserById(user_id, ok) ==
    LET hit == {e \in DOMAIN users : users[e].user_id = user_id}
    IN  IF ok /\ hit # {} THEN <<users[CHOOSE e \in hit : TRUE]>> ELSE <<>>

\* mutant: the UPDATE of a failed attempt without its WHERE clause
UpdateLoginStateEveryRow(user_id, attempts, locked_until, ok) ==
    IF ~ok THEN users
    ELSE [e \in DOMAIN users |->
            [users[e] EXCEPT !.login_attempts = attempts,
                             !.locked_until = locked_until]]

\* UPDATE users SET login_attempts, locked_until WHERE user_id: the table
\* after the statement; unchanged when the connection or the query fails
UpdateLoginState(user_id, attempts, locked_until, ok) ==
    IF ~ok THEN users
    ELSE [e \in DOMAIN users |->
            IF users[e].user_id = user_id
            THEN [users[e] EXCEPT !.login_attempts = attempts,
                                  !.locked_until = locked_until]
            ELSE users[e]]

\* mutant: the UPDATE of a successful login that does not clear locked_until
UpdateLoginSuccessKeepLock(user_id, ok) ==
    IF ~ok THEN users
    ELSE [e \in DOMAIN users |->
            IF users[e].user_id = user_id
            THEN [users[e] EXCEPT !.login_attempts = 0, !.last_login = now]
            ELSE users[e]]

\* mutant: the UPDATE of a successful login that does not reset the counter
UpdateLoginSuccessKeepCount(user_id, ok) ==
    IF ~ok THEN users
    ELSE [e \in DOMAIN users |->
            IF users[e].user_id = user_id
            THEN [users[e] EXCEPT !.locked_until = NULL, !.last_login = now]
            ELSE users[e]]

\* UPDATE users SET login_attempts = 0, locked_until = NULL, last_login = NOW()
UpdateLoginSuccess(user_id, ok) ==
    IF ~ok THEN users
    ELSE [e \in DOMAIN users |->
            IF users[e].user_id = user_id
            THEN [users[e] EXCEPT !.login_attempts = 0,
                                  !.locked_until = NULL,
                                  !.last_login = now]
            ELSE users[e]]

\* mutants of the lock test: the comparison turned around, and made inclusive
IsLockedInverted(u) == u.locked_until # NULL /\ now > u.locked_until

IsLockedInclusive(u) == u.locked_until # NULL /\ now <= u.locked_until

\* line 182: the lock test of authenticate_user
IsLocked(u) == u.locked_until # NULL /\ now < u.locked_until

\* lines 192-196: the counter and lock written by a failed attempt
FailedAttempts(u) == u.login_attempts + 1

\* mutant: the threshold compared with > instead of >=
LockAfterLate(attempts) ==
    IF attempts > MAX_LOGIN_ATTEMPTS
    THEN now + ACCOUNT_LOCKOUT_DURATION
    ELSE NULL

LockAfter(attempts) ==
    IF attempts >= MAX_LOGIN_ATTEMPTS
    THEN now + ACCOUNT_LOCKOUT_DURATION
    ELSE NULL

\* mutant: an unknown email told apart from a wrong password
NoUserDecisionNotFound == [status |-> 404, body |-> "User not found"]

\* mutant: an unknown email told apart by the wording of the answer only
NoUserDecisionOtherBody == [status |-> 401, body |-> "Unknown email"]

\* lines 178-179: the decision when the SELECT returns no row
NoUserDecision == [status |-> 401, body |-> "Invalid credentials"]

\* mutant: the password verified before the lock is looked at, so that a
\* wrong password during the lock window is counted and renews the lock
authenticate_user_verify_first(email, password, rd, wr) ==
    LET user == SelectUserByEmail(email, rd)
    IN  IF user = <<>>
        THEN [status |-> NoUserDecision.status, body |-> NoUserDecision.body,
              row |-> user, store |-> users, verified |-> FALSE]
        ELSE IF ~check_password_hash(user[1].password_hash, password)
        THEN [status |-> IF IsLocked(user[1]) THEN 423 ELSE 401,
              body |-> IF IsLocked(user[1])
                       THEN "Account is temporarily locked"
                       ELSE "Invalid credentials",
              row |-> user,
              store |-> UpdateLoginState(user[1].user_id,
                                         FailedAttempts(user[1]),
                                         LockAfter(FailedAttempts(user[1])),
                                         wr),
              verified |-> TRUE]
        ELSE IF IsLocked(user[1])
        THEN [status |-> 423, body |-> "Account is temporarily locked",
              row |-> user, store |-> users, verified |-> TRUE]
        ELSE IF ~user[1].is_active
        THEN [status |-> 403, body |-> "Account is deactivated",
              row |-> user, store |-> users, verified |-> TRUE]
        ELSE [status |-> 200, body |-> "user",
              row |-> user,
              store |-> UpdateLoginSuccess(user[1].user_id, wr),
              verified |-> TRUE]

\* mutant: the is_active test left out, so that a deactivated account
\* is verified and logged in like any other
authenticate_user_no_active_test(email, password, rd, wr) ==
    LET user == SelectUserByEmail(email, rd)
    IN  IF user = <<>>
        THEN [status |-> NoUserDecision.status, body |-> NoUserDecision.body,
              row |-> user, store |-> users, verified |-> FALSE]
        ELSE IF IsLocked(user[1])
        THEN [status |-> 423, body |-> "Account is temporarily locked",
              row |-> user, store |-> users, verified |-> FALSE]
        ELSE IF ~check_password_hash(user[1].password_hash, password)
        THEN [status |-> 401, body |-> "Invalid credentials",
              row |-> user,
              store |-> UpdateLoginState(user[1].user_id,
                                         FailedAttempts(user[1]),
                                         LockAfter(FailedAttempts(user[1])),
                                         wr),
              verified |-> TRUE]
        ELSE [status |-> 200, body |-> "user",
              row |-> user,
              store |-> UpdateLoginSuccess(user[1].user_id, wr),
              verified |-> TRUE]

\* UserService.authenticate_user: the decision, the row it read, the users
\* table it leaves and whether it called check_password_hash.  rd, wr:
\* whether the SELECT and the UPDATE succeed.
authenticate_user(email, password, rd, wr) ==
    LET user == SelectUserByEmail(email, rd)
    IN  IF user = <<>>
        THEN [status |-> NoUserDecision.status, body |-> NoUserDecision.body,
              row |-> user, store |-> users, verified |-> FALSE]
        ELSE IF IsLocked(user[1])
        THEN [status |-> 423, body |-> "Account is temporarily locked",
              row |-> user, store |-> users, verified |-> FALSE]
        ELSE IF ~user[1].is_active
        THEN [status |-> 403, body |-> "Account is deactivated",
              row |-> user, store |-> users, verified |-> FALSE]
        ELSE IF ~check_password_hash(user[1].password_hash, password)
        THEN [status |-> 401, body |-> "Invalid credentials",
              row |-> user,
              store |-> UpdateLoginState(user[1].user_id,
                                         FailedAttempts(user[1]),
                                         LockAfter(FailedAttempts(user[1])),
                                         wr),
              verified |-> TRUE]
        ELSE [status |-> 200, body |-> "user",
              row |-> user,
              store |-> UpdateLoginSuccess(user[1].user_id, wr),
              verified |-> TRUE]

\* UserService.get_user_by_id
get_user_by_id(user_id, ok) ==
    LET user == SelectUserById(user_id, ok)
    IN  IF user # <<>>
        THEN [status |-> 200, row |-> user]
        ELSE [status |-> 404, row |-> <<>>]

\* ---------------------------------------------------- revocation registry
\* redis GET: a key is visible until its time to live has run out
RedisGet(jti) == jti \in DOMAIN registry /\ now < registry[jti]

\* mutant: the time to live read in days (timedelta.days of a duration of
\* minutes is 0), so that the key is gone as soon as it is written
RedisSetDays(jti, ttl) ==
    [j \in (DOMAIN registry) \cup {jti} |->
        IF j = jti THEN now + (ttl \div 1440) ELSE registry[j]]

\* redis SET key value EX ttl
RedisSet(jti, ttl) ==
    [j \in (DOMAIN registry) \cup {jti} |->
        IF j = jti THEN now + ttl ELSE registry[j]]

\* the Redis database a service opens: Config.REDIS_DB in the user service,
\* the literal 0 in the customer service
RedisDb(svc) == IF svc = "user" THEN REDIS_DB ELSE 0

\* GET in database db: registry is the key space of the database that
\* logout writes; no code writes a key into another database
RedisGetIn(db, jti) == db = REDIS_DB /\ RedisGet(jti)

\* mutant: a lookup that raises answered 'revoked' (fail closed)
check_if_token_revoked_fail_closed(svc, claims, rok) ==
    IF ~redis_client[svc] THEN FALSE
    ELSE IF ~rok THEN TRUE
    ELSE RedisGetIn(RedisDb(svc), claims.jti)

\* mutant: the answer of the lookup turned around
check_if_token_revoked_inverted(svc, claims, rok) ==
    IF ~redis_client[svc] THEN FALSE
    ELSE IF ~rok THEN FALSE
    ELSE ~RedisGetIn(RedisDb(svc), claims.jti)

\* check_if_token_revoked of either service; rok: whether the GET succeeds
check_if_token_revoked(svc, claims, rok) ==
    IF ~redis_client[svc] THEN FALSE
    ELSE IF ~rok THEN FALSE
    ELSE RedisGetIn(RedisDb(svc), claims.jti)

\* ------------------------------------------------------- token validation
\* @jwt_required(): the verdict on the presented credential
VerifyJwt(svc, cred, rok) ==
    IF cred = <<>> THEN "missing"
    ELSE IF cred[1].sig # Sign(cred[1].claims, JWT_SECRET_KEY) THEN "invalid"
    ELSE IF cred[1].claims.exp <= now THEN "expired"
    ELSE IF cred[1].claims.type # "access" THEN "wrong_type"
    ELSE IF check_if_token_revoked(svc, cred[1].claims, rok) THEN "revoked"
    ELSE "ok"

\* the response flask_jwt_extended gives for a verdict other than "ok"
JwtErrorStatus(verdict) ==
    IF verdict \in {"invalid", "wrong_type"} THEN 422 ELSE 401

JwtErrorBody(verdict) ==
    CASE verdict = "missing" -> "Missing Authorization Header"
      [] verdict = "expired" -> "Token has expired"
      [] verdict = "revoked" -> "Token has been revoked"
      [] verdict = "wrong_type" -> "Only non-refresh tokens are allowed"
      [] OTHER -> "Invalid token"

\* mutant: the two additional claims swapped
create_access_token_swapped(jti, user) ==
    EncodeToken([jti |-> jti, sub |-> user.user_id, type |-> "access",
                 iat |-> now, exp |-> now + JWT_ACCESS_TOKEN_EXPIRES,
                 role |-> user.email, email |-> user.role],
                JWT_SECRET_KEY)

\* create_access_token / create_refresh_token
create_access_token(jti, user) ==
    EncodeToken([jti |-> jti, sub |-> user.user_id, type |-> "access",
                 iat |-> now, exp |-> now + JWT_ACCESS_TOKEN_EXPIRES,
                 role |-> user.role, email |-> user.email],
                JWT_SECRET_KEY)

create_refresh_token(jti, user) ==
    EncodeToken([jti |-> jti, sub |-> user.user_id, type |-> "refresh",
                 iat |-> now, exp |-> now + JWT_REFRESH_TOKEN_EXPIRES],
                JWT_SECRET_KEY)

\* a token an outsider makes up: well-formed claims under a key of their own
ForgedToken ==
    EncodeToken([jti |-> 0, sub |-> 1, type |-> "access",
                 iat |-> 0, exp |-> JWT_REFRESH_TOKEN_EXPIRES,
                 role |-> "admin", email |-> AdminEmail],
                "attacker-key")

\* what a client may put in the Authorization header
Credentials == {<<>>, <<ForgedToken>>} \cup {<<t>> : t \in tokens}

\* ---------------------------------------------------------------- state
UserRow(user_id, email, password, role, is_active) ==
    [user_id |-> user_id, email |-> email,
     password_hash |-> generate_password_hash(password),
     role |-> role, is_active |-> is_active,
     login_attempts |-> 0, locked_until |-> NULL, last_login |-> NULL]

\* the workers of the user service that serve requests side by side
MaxWorkers == 2

Workers == 1..MaxWorkers

\* a worker that is serving no call
NoCall ==
    [op |-> "none", pc |-> "idle", email |-> "", password |-> "",
     role |-> "", attempts |-> 0, locked_until |-> NULL, user_id |-> 0,
     status |-> 0]

\* the shape of a request/response record; every handler fills in its part
NoResponse ==
    [op |-> "none", svc |-> "", email |-> "", password |-> "", cred |-> <<>>,
     status |-> 0, body |-> "", at |-> 0, row |-> <<>>, dbok |-> TRUE,
     verdict |-> "", role |-> "", invoked |-> FALSE,
     runBefore |-> 0, run |-> 0, issued |-> <<>>, session_id |-> 0,
     echo |-> <<>>, lookup |-> "", revokedBefore |-> FALSE,
     verified |-> FALSE, queries |-> 0, entryBefore |-> NULL, user_id |-> 0,
     selected |-> TRUE]

\* The store holds the users registered earlier: an administrator, a driver
\* and a deactivated account, all with the same password.  Both services
\* have started, each with or without its registry handle (lines 59-73 of
\* UserMS, 65-80 of CustomerMS).
SeedUsers ==
    (AdminEmail :> UserRow(1, AdminEmail, AdminPassword, "admin", TRUE))
    @@ (DriverEmail :> UserRow(2, DriverEmail, AdminPassword, "driver", TRUE))
    @@ (FormerEmail :> UserRow(3, FormerEmail, AdminPassword, "warehouse", FALSE))

Init ==
    /\ users = SeedUsers
    /\ sessions = {}
    /\ registry = <<>>
    /\ redis_client \in [Services -> BOOLEAN]
    /\ tokens = {}
    /\ uuids = 3
    /\ now = 0
    /\ last = NoResponse
    /\ wrongRun = [e \in Emails |-> 0]
    /\ revoked = <<>>
    /\ mintedFor = <<>>
    /\ REDIS_DB = 0
    /\ registered = [e \in Emails |-> <<>>]
    /\ failures = [e \in Emails |-> 0]
    /\ inflight = [w \in Workers |-> NoCall]
    /\ lockedOut = {}
    /\ reachable = TRUE

\* -------------------------------------------------------------- requests
\* Requests are served one after the other: a handler starts when no response
\* is pending, and its response is pending until it has been sent.
Idle == last = NoResponse

\* the pending response is sent
Return ==
    /\ ~Idle
    /\ last' = NoResponse
    /\ UNCHANGED <<users, sessions, registry, redis_client, tokens, uuids,
                   now, wrongRun, revoked, mintedFor,
                       REDIS_DB, registered, failures, inflight,
                   lockedOut, reachable>>

\* ---------------------------------------------------------------- clock
\* time passes; Redis drops the keys whose time to live has run out
Tick ==
    /\ Idle
    /\ now + TickStep <= MaxTime
    /\ now' = now + TickStep
    /\ registry' = [j \in {k \in DOMAIN registry : registry[k] > now + TickStep}
                       |-> registry[j]]
    /\ UNCHANGED <<users, sessions, redis_client, tokens, uuids, last,
                   wrongRun, revoked, mintedFor,
                       REDIS_DB, registered, failures, inflight,
                   lockedOut, reachable>>

\* ---------------------------------------------------------------- login
\* SessionService.create_session: the table after the INSERT
create_session(session_id, user_id, refresh_token, ok) ==
    IF ok
    THEN sessions \cup
           {[session_id |-> session_id, user_id |-> user_id,
             refresh_token_hash |-> generate_password_hash(refresh_token.claims.jti),
             expires_at |-> now + JWT_REFRESH_TOKEN_EXPIRES]}
    ELSE sessions

\* history: the run of wrong-password attempts after this call.  An attempt
\* counts when the account exists and is active, the password does not match
\* the stored verifier and the store answered both queries; a run starts from
\* login_attempts = 0 and no lock, any other call for the email ends it,
\* and runs longer than the threshold are not told apart.
RunAfter(email, password, row, wr) ==
    IF /\ row # <<>>
       /\ wr
       /\ row[1].is_active
       /\ ~check_password_hash(row[1].password_hash, password)
    THEN IF row[1].login_attempts = 0 /\ row[1].locked_until = NULL
         THEN 1
         ELSE IF wrongRun[email] = 0 THEN 0
         ELSE IF wrongRun[email] > MAX_LOGIN_ATTEMPTS THEN wrongRun[email]
         ELSE wrongRun[email] + 1
    ELSE 0

\* POST /auth/login.  rd, wr, ss: whether the SELECT and UPDATE of
\* authenticate_user and the INSERT of create_session succeed (a flag of a
\* query the handler does not send is held TRUE).
Login(email, password, rd, wr, ss) ==
    IF email = "" \/ password = ""
    THEN /\ rd /\ wr /\ ss
         /\ last' = [NoResponse EXCEPT !.op = "login", !.svc = "user",
                        !.email = email, !.password = password,
                        !.status = 400,
                        !.body = "Email and password are required",
                        !.at = now]
         /\ UNCHANGED <<users, sessions, registry, redis_client, tokens,
                        uuids, now, wrongRun, revoked, mintedFor,
                       REDIS_DB, registered, failures, inflight,
                   lockedOut, reachable>>
    ELSE LET a == authenticate_user(email, password, rd, wr)
             wrote == a.row # <<>> /\ a.status \in {200, 401}
             req == [NoResponse EXCEPT !.op = "login", !.svc = "user",
                        !.email = email, !.password = password,
                        !.at = now, !.row = a.row,
                        !.dbok = (rd /\ wr),
                        !.selected = rd,
                        !.verified = a.verified,
                        !.queries = 1 + (IF wrote THEN 1 ELSE 0)
                                      + (IF a.status = 200 THEN 1 ELSE 0),
                        !.runBefore = wrongRun[email],
                        !.run = RunAfter(email, password, a.row, wr)]
         IN  /\ wrote \/ wr
             /\ a.status = 200 \/ ss
             /\ users' = a.store
             /\ wrongRun' = [wrongRun EXCEPT ![email] = RunAfter(email, password, a.row, wr)]
             /\ IF a.status # 200
                THEN /\ last' = [req EXCEPT !.status = a.status, !.body = a.body]
                     /\ UNCHANGED <<sessions, tokens, uuids, mintedFor>>
                ELSE LET access_token == create_access_token(uuids + 1, a.row[1])
                         refresh_token == create_refresh_token(uuids + 2, a.row[1])
                     IN  /\ Cardinality(tokens) < 2 * MaxRelogins
                         /\ tokens' = tokens \cup {access_token, refresh_token}
                         /\ sessions' = create_session(uuids + 3, a.row[1].user_id,
                                                       refresh_token, ss)
                         /\ uuids' = uuids + 3
                         /\ mintedFor' = mintedFor @@ (uuids + 1 :> email)
                                                    @@ (uuids + 2 :> email)
                         /\ last' = [req EXCEPT !.status = 200,
                                        !.body = "Login successful",
                                        !.issued = <<access_token, refresh_token>>,
                                        !.session_id = IF ss THEN uuids + 3 ELSE 0]
             /\ failures' = [failures EXCEPT ![email] =
                                 IF a.status = 200 THEN 0
                                 ELSE IF a.verified /\ @ < MaxFailures
                                 THEN @ + 1
                                 ELSE @]
             /\ UNCHANGED <<registry, redis_client, now, revoked, REDIS_DB,
                            registered, inflight,
                   lockedOut, reachable>>

\* ------------------------------------------------- protected operations
\* whether validation gets as far as the blocklist callback
BlocklistReached(cred) ==
    /\ cred # <<>>
    /\ cred[1].sig = Sign(cred[1].claims, JWT_SECRET_KEY)
    /\ cred[1].claims.exp > now
    /\ cred[1].claims.type = "access"

\* history: what became of the registry lookup of a validation
Lookup(svc, cred, rok) ==
    IF ~BlocklistReached(cred) THEN ""
    ELSE IF ~redis_client[svc] THEN "absent"
    ELSE IF rok THEN "ok"
    ELSE "failed"

\* the request record of a protected operation of service svc
Request(op, svc, cred, rok) ==
    [NoResponse EXCEPT !.op = op, !.svc = svc, !.cred = cred, !.at = now,
                       !.verdict = VerifyJwt(svc, cred, rok),
                       !.lookup = Lookup(svc, cred, rok),
                       !.revokedBefore = (cred # <<>> /\
                            cred[1].claims.jti \in DOMAIN revoked)]

\* the response to a request that @jwt_required() turned away
Rejected(req) ==
    [req EXCEPT !.status = JwtErrorStatus(req.verdict),
                !.body = JwtErrorBody(req.verdict)]

\* the lookup flag of a request that sends no GET is held TRUE
LookupFlagOk(svc, cred, rok) ==
    rok \/ (BlocklistReached(cred) /\ redis_client[svc])

\* mutant: logout revokes by user, writing a key for every access token
\* minted for the user of the presented token
LogoutByUser(cred, rok, wok) ==
    LET req == Request("logout", "user", cred, rok)
        written == redis_client["user"] /\ wok
    IN  /\ LookupFlagOk("user", cred, rok)
        /\ wok \/ (req.verdict = "ok" /\ redis_client["user"])
        /\ IF req.verdict # "ok"
           THEN /\ last' = Rejected(req)
                /\ UNCHANGED <<registry, revoked>>
           ELSE /\ registry' =
                    IF written
                    THEN LET mine == {t.claims.jti : t \in
                                        {u \in tokens :
                                           /\ u.claims.type = "access"
                                           /\ u.claims.sub = cred[1].claims.sub}}
                         IN  [j \in (DOMAIN registry) \cup mine |->
                                IF j \in mine
                                THEN now + JWT_ACCESS_TOKEN_EXPIRES
                                ELSE registry[j]]
                    ELSE registry
                /\ revoked' = IF written
                              THEN [j \in (DOMAIN revoked) \cup {cred[1].claims.jti} |->
                                      IF j = cred[1].claims.jti THEN now
                                      ELSE revoked[j]]
                              ELSE revoked
                /\ last' = [req EXCEPT !.status = 200,
                               !.body = "Logout successful",
                               !.invoked = TRUE,
                               !.dbok = written,
                               !.entryBefore =
                                   IF RedisGet(cred[1].claims.jti)
                                   THEN registry[cred[1].claims.jti]
                                   ELSE NULL]
        /\ UNCHANGED <<users, sessions, redis_client, tokens, uuids, now,
                       wrongRun, mintedFor,
                       REDIS_DB, registered, failures, inflight,
                   lockedOut, reachable>>

\* POST /auth/logout.  rok, wok: whether the GET of the blocklist callback and
\* the SET of the handler succeed.
Logout(cred, rok, wok) ==
    LET req == Request("logout", "user", cred, rok)
        written == redis_client["user"] /\ wok
    IN  /\ LookupFlagOk("user", cred, rok)
        /\ wok \/ (req.verdict = "ok" /\ redis_client["user"])
        /\ IF req.verdict # "ok"
           THEN /\ last' = Rejected(req)
                /\ UNCHANGED <<registry, revoked>>
           ELSE /\ registry' = IF written
                               THEN RedisSet(cred[1].claims.jti,
                                             JWT_ACCESS_TOKEN_EXPIRES)
                               ELSE registry
                /\ revoked' = IF written
                              THEN [j \in (DOMAIN revoked) \cup {cred[1].claims.jti} |->
                                      IF j = cred[1].claims.jti THEN now
                                      ELSE revoked[j]]
                              ELSE revoked
                /\ last' = [req EXCEPT !.status = 200,
                               !.body = "Logout successful",
                               !.invoked = TRUE,
                               !.dbok = written,
                               !.entryBefore =
                                   IF RedisGet(cred[1].claims.jti)
                                   THEN registry[cred[1].claims.jti]
                                   ELSE NULL]
        /\ UNCHANGED <<users, sessions, redis_client, tokens, uuids, now,
                       wrongRun, mintedFor,
                       REDIS_DB, registered, failures, inflight,
                   lockedOut, reachable>>

\* GET /auth/profile.  db: whether the SELECT of get_user_by_id succeeds.
GetProfile(cred, rok, db) ==
    LET req == Request("profile", "user", cred, rok)
    IN  /\ LookupFlagOk("user", cred, rok)
        /\ db \/ req.verdict = "ok"
        /\ IF req.verdict # "ok"
           THEN last' = Rejected(req)
           ELSE LET r == get_user_by_id(cred[1].claims.sub, db)
                IN  last' = [req EXCEPT !.status = r.status,
                                !.body = IF r.status = 200 THEN "user"
                                         ELSE "User not found",
                                !.row = r.row, !.dbok = db,
                                !.invoked = TRUE]
        /\ UNCHANGED <<users, sessions, registry, redis_client, tokens, uuids,
                       now, wrongRun, revoked, mintedFor,
                       REDIS_DB, registered, failures, inflight,
                   lockedOut, reachable>>

\* POST /auth/validate: the decoded claims echoed
ValidateToken(cred, rok) ==
    LET req == Request("validate", "user", cred, rok)
    IN  /\ LookupFlagOk("user", cred, rok)
        /\ IF req.verdict # "ok"
           THEN last' = Rejected(req)
           ELSE last' = [req EXCEPT !.status = 200, !.body = "valid",
                            !.invoked = TRUE,
                            !.echo = <<[user_id |-> cred[1].claims.sub,
                                        role |-> Claim(cred[1].claims, "role"),
                                        email |-> Claim(cred[1].claims, "email")]>>]
        /\ UNCHANGED <<users, sessions, registry, redis_client, tokens, uuids,
                       now, wrongRun, revoked, mintedFor,
                       REDIS_DB, registered, failures, inflight,
                   lockedOut, reachable>>

\* mutants of the gate: the role looked at before the token, and not at all
GateDecisionRoleFirst(verdict, resolved, role, allowed) ==
    IF role \notin allowed THEN "forbidden"
    ELSE IF verdict # "ok" THEN "unauthorized"
    ELSE IF ~resolved THEN "not_found"
    ELSE "invoke"

GateDecisionNoRoleCheck(verdict, resolved, role, allowed) ==
    IF verdict # "ok" THEN "unauthorized"
    ELSE IF ~resolved THEN "not_found"
    ELSE "invoke"

\* role_required of either service: what decorated_function does, given the
\* verdict of @jwt_required(), whether a role was resolved and the role
GateDecision(verdict, resolved, role, allowed) ==
    IF verdict # "ok" THEN "unauthorized"
    ELSE IF ~resolved THEN "not_found"
    ELSE IF role \notin allowed THEN "forbidden"
    ELSE "invoke"

\* the response of the gate when it does not invoke the handler
Gated(req, decision) ==
    CASE decision = "unauthorized" -> Rejected(req)
      [] decision = "not_found" ->
            [req EXCEPT !.status = 404, !.body = "User not found"]
      [] OTHER ->
            [req EXCEPT !.status = 403, !.body = "Insufficient permissions"]

\* @role_required(['admin', 'hq']) on list_users
ListUsersRoles == {"admin", "hq"}

\* GET /auth/users.  db1, db2: whether the SELECT of the gate and the SELECT
\* of the handler succeed.
ListUsers(cred, rok, db1, db2) ==
    LET req0 == Request("list_users", "user", cred, rok)
        r == IF req0.verdict = "ok"
             THEN get_user_by_id(cred[1].claims.sub, db1)
             ELSE [status |-> 0, row |-> <<>>]
        role == IF r.status = 200 THEN r.row[1].role ELSE "None"
        decision == GateDecision(req0.verdict, r.status = 200, role,
                                 ListUsersRoles)
        req == [req0 EXCEPT !.role = role, !.row = r.row]
    IN  /\ LookupFlagOk("user", cred, rok)
        /\ db1 \/ req0.verdict = "ok"
        /\ db2 \/ decision = "invoke"
        /\ IF decision # "invoke"
           THEN last' = [Gated(req, decision) EXCEPT !.dbok = db1]
           ELSE last' = [req EXCEPT !.status = 200,
                            !.body = IF db2 THEN "users" ELSE "no users",
                            !.dbok = db2, !.invoked = TRUE]
        /\ UNCHANGED <<users, sessions, registry, redis_client, tokens, uuids,
                       now, wrongRun, revoked, mintedFor,
                       REDIS_DB, registered, failures, inflight,
                   lockedOut, reachable>>

\* the role-gated routes of the customer service and their allowed roles
CustomerOps ==
    {"create_customer", "get_customer", "get_customer_by_contact",
     "search_customers", "validate_customer_data"}

CustomerRoles(op) ==
    IF op \in {"get_customer", "get_customer_by_contact"}
    THEN {"admin", "hq", "customer_service", "warehouse", "driver"}
    ELSE {"admin", "hq", "customer_service"}

\* the statuses the handlers of the customer service answer with
HandlerStatuses(op) ==
    CASE op = "create_customer" -> {201, 400, 409, 500}
      [] op = "search_customers" -> {200, 500}
      [] op = "validate_customer_data" -> {200, 400, 500}
      [] OTHER -> {200, 404, 500}

\* a /customers route.  hs: the status the wrapped handler answers with
\* (held at 500 when the gate does not invoke the handler).
CustomerOp(op, cred, rok, hs) ==
    LET req0 == Request(op, "customer", cred, rok)
        role == IF req0.verdict = "ok" THEN Claim(cred[1].claims, "role")
                ELSE "None"
        decision == GateDecision(req0.verdict, TRUE, role, CustomerRoles(op))
        req == [req0 EXCEPT !.role = role]
    IN  /\ LookupFlagOk("customer", cred, rok)
        /\ hs \in HandlerStatuses(op)
        /\ decision = "invoke" \/ hs = 500
        /\ IF decision # "invoke"
           THEN last' = Gated(req, decision)
           ELSE last' = [req EXCEPT !.status = hs, !.body = "handler",
                            !.invoked = TRUE]
        /\ UNCHANGED <<users, sessions, registry, redis_client, tokens, uuids,
                       now, wrongRun, revoked, mintedFor,
                       REDIS_DB, registered, failures, inflight,
                   lockedOut, reachable>>

\* ---------------------------------------------------------- registration
\* the character at position i of a string
CharAt(str, i) == SubSeq(str, i, i)

Letters ==
    {"a", "b", "c", "d", "e", "f", "g", "h", "i", "j", "k", "l", "m",
     "n", "o", "p", "q", "r", "s", "t", "u", "v", "w", "x", "y", "z",
     "A", "B", "C", "D", "E", "F", "G", "H", "I", "J", "K", "L", "M",
     "N", "O", "P", "Q", "R", "S", "T", "U", "V", "W", "X", "Y", "Z"}

Digits == {"0", "1", "2", "3", "4", "5", "6", "7", "8", "9"}

\* [A-Za-z0-9._%+-] and [A-Za-z0-9.-]
LocalChars == Letters \cup Digits \cup {".", "_", "%", "+", "-"}

DomainChars == Letters \cup Digits \cup {".", "-"}

\* every character of str[from..to] is in chars, and there is at least one
AllIn(str, from, to, chars) ==
    /\ from <= to
    /\ \A i \in from..to : CharAt(str, i) \in chars

\* re.match(email_pattern, email):
\* ^[A-Za-z0-9._%+-]+@[A-Za-z0-9.-]+\.[A-Za-z]{2,}$
EmailPatternMatches(email) ==
    \E at \in 1..Len(email), dot \in 1..Len(email) :
        /\ CharAt(email, at) = "@"
        /\ CharAt(email, dot) = "."
        /\ AllIn(email, 1, at - 1, LocalChars)
        /\ AllIn(email, at + 1, dot - 1, DomainChars)
        /\ dot + 2 <= Len(email)
        /\ AllIn(email, dot + 1, Len(email), Letters)

\* mutant: the password length test left out
RegisterValidationNoLength(data) ==
    IF DOMAIN data = {} THEN "No data provided"
    ELSE IF "email" \notin DOMAIN data THEN "Missing required field: email"
    ELSE IF "password" \notin DOMAIN data THEN "Missing required field: password"
    ELSE IF "role" \notin DOMAIN data THEN "Missing required field: role"
    ELSE IF ~EmailPatternMatches(data.email) THEN "Invalid email format"
    ELSE IF data.role \notin Roles THEN "Invalid role"
    ELSE ""

\* register: the checks made on the request body before create_user is
\* called; the error of the first check that fails, "" when all pass
RegisterValidation(data) ==
    IF DOMAIN data = {} THEN "No data provided"
    ELSE IF "email" \notin DOMAIN data THEN "Missing required field: email"
    ELSE IF "password" \notin DOMAIN data THEN "Missing required field: password"
    ELSE IF "role" \notin DOMAIN data THEN "Missing required field: role"
    ELSE IF ~EmailPatternMatches(data.email) THEN "Invalid email format"
    ELSE IF data.role \notin Roles THEN "Invalid role"
    ELSE IF Len(data.password) < MIN_PASSWORD_LENGTH
         THEN "Password must be at least 8 characters"
    ELSE ""

\* mutant: a table without the unique key on email
NoUniqueKey(email) == FALSE

\* users.email is a unique key: an INSERT for an email that has a row fails
UniqueEmailViolation(email) == email \in DOMAIN users

\* mutant: the role of the request not stored, every account a driver
create_user_one_role(email, password, role, rd, wr) ==
    IF SelectUserByEmail(email, rd) # <<>>
    THEN [status |-> 409, body |-> "User already exists",
          store |-> users, queries |-> 1, created |-> FALSE]
    ELSE IF wr /\ ~UniqueEmailViolation(email)
    THEN [status |-> 201, body |-> "User created successfully",
          store |-> users @@ (email :> UserRow(uuids + 1, email, password,
                                               "driver", TRUE)),
          queries |-> 2, created |-> TRUE]
    ELSE [status |-> 500, body |-> "Failed to create user",
          store |-> users, queries |-> 2, created |-> FALSE]

\* mutant: the test for an existing user left out
create_user_no_existing_test(email, password, role, rd, wr) ==
    IF wr
    THEN [status |-> 201, body |-> "User created successfully",
          store |-> [e \in (DOMAIN users) \cup {email} |->
                        IF e = email
                        THEN UserRow(uuids + 1, email, password, role, TRUE)
                        ELSE users[e]],
          queries |-> 2, created |-> TRUE]
    ELSE [status |-> 500, body |-> "Failed to create user",
          store |-> users, queries |-> 2, created |-> FALSE]

\* UserService.create_user.  rd, wr: whether the SELECT and the INSERT
\* succeed.  The new row takes the defaults of the table for the columns the
\* INSERT does not name.
create_user(email, password, role, rd, wr) ==
    IF SelectUserByEmail(email, rd) # <<>>
    THEN [status |-> 409, body |-> "User already exists",
          store |-> users, queries |-> 1, created |-> FALSE]
    ELSE IF wr /\ ~UniqueEmailViolation(email)
    THEN [status |-> 201, body |-> "User created successfully",
          store |-> users @@ (email :> UserRow(uuids + 1, email, password,
                                               role, TRUE)),
          queries |-> 2, created |-> TRUE]
    ELSE [status |-> 500, body |-> "Failed to create user",
          store |-> users, queries |-> 2, created |-> FALSE]

\* the field of a request body, "" when the body does not have it
Field(data, name) == IF name \in DOMAIN data THEN data[name] ELSE ""

\* POST /auth/register.  rd, wr: whether the SELECT and the INSERT of
\* create_user succeed (a flag of a query the handler does not send is held
\* TRUE).  uuid4 is a fresh identifier; the counter moves when it is used.
Register(data, rd, wr) ==
    LET error == RegisterValidation(data)
        req == [NoResponse EXCEPT !.op = "register", !.svc = "user",
                   !.email = Field(data, "email"),
                   !.password = Field(data, "password"),
                   !.role = Field(data, "role"),
                   !.at = now]
    IN  IF error # ""
        THEN /\ rd /\ wr
             /\ last' = [req EXCEPT !.status = 400, !.body = error]
             /\ UNCHANGED <<users, sessions, registry, redis_client, tokens,
                            uuids, now, wrongRun, revoked, mintedFor,
                       REDIS_DB, registered, failures, inflight,
                   lockedOut, reachable>>
        ELSE LET r == create_user(data.email, data.password, data.role, rd, wr)
             IN  /\ wr \/ r.queries = 2
                 /\ users' = r.store
                 /\ uuids' = IF r.created THEN uuids + 1 ELSE uuids
                 /\ last' = [req EXCEPT !.status = r.status, !.body = r.body,
                                !.dbok = (rd /\ wr),
                                !.queries = r.queries,
                                !.user_id = IF r.created THEN uuids + 1 ELSE 0]
                 /\ registered' =
                        IF r.created
                        THEN [registered EXCEPT ![data.email] =
                                Append(@, [user_id |-> uuids + 1,
                                           password |-> data.password,
                                           role |-> data.role])]
                        ELSE registered
                 /\ UNCHANGED <<sessions, registry, redis_client, tokens, now,
                                wrongRun, revoked, mintedFor, REDIS_DB,
                                failures, inflight,
                   lockedOut, reachable>>

\* ------------------------------------------------- calls side by side
\* Workers serve requests at the same time: a call of authenticate_user or
\* create_user is the sequence of its statements, and between two queries of
\* one call the queries of another call may run.  Every query is one step.

\* a worker takes up a call of authenticate_user
BeginAuthenticate(w, email, password) ==
    /\ inflight[w].pc = "idle"
    /\ inflight' = [inflight EXCEPT ![w] =
                      [NoCall EXCEPT !.op = "authenticate", !.pc = "select",
                                     !.email = email, !.password = password]]
    /\ UNCHANGED <<users, sessions, registry, redis_client, tokens, uuids, now,
                   last, wrongRun, revoked, mintedFor, REDIS_DB, registered,
                   failures,
                   lockedOut, reachable>>

\* lines 169-196: the SELECT, and what the call decides from the row it got,
\* up to the UPDATE it is about to send
AuthenticateSelectQuery(w, rd) ==
    LET call == inflight[w]
        user == SelectUserByEmail(call.email, rd)
        decided ==
            IF user = <<>>
            THEN [call EXCEPT !.pc = "done", !.status = NoUserDecision.status]
            ELSE IF IsLocked(user[1])
            THEN [call EXCEPT !.pc = "done", !.status = 423]
            ELSE IF ~user[1].is_active
            THEN [call EXCEPT !.pc = "done", !.status = 403]
            ELSE IF ~check_password_hash(user[1].password_hash, call.password)
            THEN [call EXCEPT !.pc = "update_failed",
                              !.user_id = user[1].user_id,
                              !.attempts = FailedAttempts(user[1]),
                              !.locked_until =
                                  LockAfter(FailedAttempts(user[1]))]
            ELSE [call EXCEPT !.pc = "update_success",
                              !.user_id = user[1].user_id]
    IN  /\ call.op = "authenticate"
        /\ call.pc = "select"
        /\ inflight' = [inflight EXCEPT ![w] = decided]
        /\ UNCHANGED <<users, sessions, registry, redis_client, tokens, uuids,
                       now, last, wrongRun, revoked, mintedFor, REDIS_DB,
                       registered, reachable>>

\* the SELECT step of a call
AuthenticateSelect(w, rd) ==
    /\ AuthenticateSelectQuery(w, rd)
    /\ UNCHANGED <<failures, lockedOut>>

\* the SELECT step of a call, with the history of the account kept: the
\* wrong passwords that reached check_password_hash (line 190), and whether
\* a call has been answered 423 (line 183)
AuthenticateSelectCounted(w, rd) ==
    LET e == inflight[w].email
    IN  /\ AuthenticateSelectQuery(w, rd)
        /\ failures' = [failures EXCEPT ![e] =
                           IF inflight'[w].pc = "update_failed"
                           THEN IF @ < MaxFailures THEN @ + 1 ELSE @
                           ELSE IF inflight'[w].pc = "update_success" THEN 0
                           ELSE @]
        /\ lockedOut' = IF inflight'[w].status = 423
                        THEN lockedOut \cup {e}
                        ELSE lockedOut

\* lines 198-204 and 207-214: the UPDATE and the decision returned after it
AuthenticateUpdate(w, wr) ==
    LET call == inflight[w]
    IN  /\ call.op = "authenticate"
        /\ call.pc \in {"update_failed", "update_success"}
        /\ users' = IF call.pc = "update_failed"
                    THEN UpdateLoginState(call.user_id, call.attempts,
                                              call.locked_until, wr)
                    ELSE UpdateLoginSuccess(call.user_id, wr)
        /\ inflight' = [inflight EXCEPT ![w] =
                          [call EXCEPT !.pc = "done",
                                       !.status = IF call.pc = "update_failed"
                                                  THEN 401 ELSE 200]]
        /\ UNCHANGED <<sessions, registry, redis_client, tokens, uuids, now,
                       last, wrongRun, revoked, mintedFor, REDIS_DB,
                       registered, failures,
                   lockedOut, reachable>>

\* a worker takes up a call of create_user
BeginCreate(w, email, password, role) ==
    /\ inflight[w].pc = "idle"
    /\ inflight' = [inflight EXCEPT ![w] =
                      [NoCall EXCEPT !.op = "create", !.pc = "select",
                                     !.email = email, !.password = password,
                                     !.role = role]]
    /\ UNCHANGED <<users, sessions, registry, redis_client, tokens, uuids, now,
                   last, wrongRun, revoked, mintedFor, REDIS_DB, registered,
                   failures,
                   lockedOut, reachable>>

\* lines 129-137: the SELECT for an existing user
CreateSelect(w, rd) ==
    LET call == inflight[w]
        existing_user == SelectUserByEmail(call.email, rd)
    IN  /\ call.op = "create"
        /\ call.pc = "select"
        /\ inflight' = [inflight EXCEPT ![w] =
                          IF existing_user # <<>>
                          THEN [call EXCEPT !.pc = "done", !.status = 409]
                          ELSE [call EXCEPT !.pc = "insert"]]
        /\ UNCHANGED <<users, sessions, registry, redis_client, tokens, uuids,
                       now, last, wrongRun, revoked, mintedFor, REDIS_DB,
                       registered, failures,
                   lockedOut, reachable>>

\* lines 140-160: the INSERT under a fresh user_id, and the answer
CreateInsert(w, wr) ==
    LET call == inflight[w]
        inserted == wr /\ ~UniqueEmailViolation(call.email)
    IN  /\ call.op = "create"
        /\ call.pc = "insert"
        /\ users' = IF inserted
                    THEN users @@ (call.email :>
                                     UserRow(uuids + 1, call.email,
                                             call.password, call.role, TRUE))
                    ELSE users
        /\ uuids' = IF inserted THEN uuids + 1 ELSE uuids
        /\ registered' =
              IF inserted
              THEN [registered EXCEPT ![call.email] =
                      Append(@, [user_id |-> uuids + 1,
                                 password |-> call.password,
                                 role |-> call.role])]
              ELSE registered
        /\ inflight' = [inflight EXCEPT ![w] =
                          [call EXCEPT !.pc = "done",
                                       !.user_id = IF inserted THEN uuids + 1
                                                   ELSE 0,
                                       !.status = IF inserted THEN 201
                                                  ELSE 500]]
        /\ UNCHANGED <<sessions, registry, redis_client, tokens, now, last,
                       wrongRun, revoked, mintedFor, REDIS_DB, failures,
                   lockedOut, reachable>>

\* the call returns and the worker is free again
EndCall(w) ==
    /\ inflight[w].pc = "done"
    /\ inflight' = [inflight EXCEPT ![w] = NoCall]
    /\ UNCHANGED <<users, sessions, registry, redis_client, tokens, uuids, now,
                   last, wrongRun, revoked, mintedFor, REDIS_DB, registered,
                   failures,
                   lockedOut, reachable>>

\* ------------------------------------------------------- specifications
\* start-up with the registry answering the ping of both services
InitAuth == Init /\ \A svc \in Services : redis_client[svc]

LoginAttempt ==
    /\ Idle
    /\ \E email \in {AdminEmail, FormerEmail, UnknownEmail, ""},
       password \in Passwords \cup {""},
       rd, wr, ss \in BOOLEAN :
        /\ Login(email, password, rd, wr, ss)
        /\ Cardinality(tokens') <= 2 * MaxLogins

\* credential verification and lockout: logins for one account, a
\* deactivated account and an unknown email, as time passes
NextAuth == Tick \/ LoginAttempt \/ Return

SpecAuth == InitAuth /\ [][NextAuth]_vars

\* the users table of an installation whose deactivated account had been
\* locked out before the administrator deactivated it: no route writes
\* is_active, so the row of a deactivated account is as the administrator
\* left it, with or without a lock that is still running
DisabledRows ==
    {SeedUsers,
     [SeedUsers EXCEPT ![FormerEmail].login_attempts = MAX_LOGIN_ATTEMPTS,
                       ![FormerEmail].locked_until = ACCOUNT_LOCKOUT_DURATION]}

InitDisabled ==
    /\ users \in DisabledRows
    /\ sessions = {}
    /\ registry = <<>>
    /\ redis_client = [svc \in Services |-> TRUE]
    /\ tokens = {}
    /\ uuids = 3
    /\ now = 0
    /\ last = NoResponse
    /\ wrongRun = [e \in Emails |-> 0]
    /\ revoked = <<>>
    /\ mintedFor = <<>>
    /\ REDIS_DB = 0
    /\ registered = [e \in Emails |-> <<>>]
    /\ failures = [e \in Emails |-> 0]
    /\ inflight = [w \in Workers |-> NoCall]
    /\ lockedOut = {}
    /\ reachable = TRUE

\* the logins of SpecAuth against a table with a deactivated account
SpecDisabled == InitDisabled /\ [][NextAuth]_vars

\* logins with the right password, for two accounts, the store answering
\* the queries of authenticate_user
LoginOk ==
    /\ Idle
    /\ \E email \in {AdminEmail, DriverEmail}, ss \in BOOLEAN :
        /\ Login(email, AdminPassword, TRUE, TRUE, ss)
        /\ Cardinality(tokens') <= 2 * MaxLogins

LogoutRequest ==
    /\ Idle
    /\ \E cred \in Credentials, rok, wok \in BOOLEAN : Logout(cred, rok, wok)

ProfileRequest ==
    /\ Idle
    /\ \E cred \in Credentials, rok, db \in BOOLEAN : GetProfile(cred, rok, db)

ValidateRequest ==
    /\ Idle
    /\ \E cred \in Credentials, rok \in BOOLEAN : ValidateToken(cred, rok)

ListUsersRequest ==
    /\ Idle
    /\ \E cred \in Credentials, rok, db1, db2 \in BOOLEAN :
        ListUsers(cred, rok, db1, db2)

CustomerRequest ==
    /\ Idle
    /\ \E op \in CustomerOps, cred \in Credentials, rok \in BOOLEAN,
       hs \in {200, 201, 400, 404, 409, 500} :
        CustomerOp(op, cred, rok, hs)

\* tokens: minting, validation in both services, revocation, expiry
NextToken ==
    \/ Tick
    \/ LoginOk
    \/ LogoutRequest
    \/ ProfileRequest
    \/ ValidateRequest
    \/ ListUsersRequest
    \/ CustomerRequest
    \/ Return

SpecToken == Init /\ [][NextToken]_vars

\* request bodies of register: every field present, over emails that are
\* new, taken, or not of the pattern; passwords of 11, 8 and 7 characters;
\* roles inside and outside the allowed list
RegisterEmails == {UnknownEmail, AdminEmail, "not-an-email", "nobody@levels.s"}

RegisterPasswords == {AdminPassword, "12345678", "1234567"}

RegisterRoles == {"driver", "hq", "guest"}

\* bodies with a field left out, and the empty body
PartialBodies ==
    {[password |-> AdminPassword, role |-> "driver"],
     [email |-> UnknownEmail, role |-> "driver"],
     [email |-> UnknownEmail, password |-> AdminPassword],
     [role |-> "driver"]}

RegisterBodies ==
    [email : RegisterEmails, password : RegisterPasswords, role : RegisterRoles]

RegisterRequest ==
    /\ Idle
    /\ \E rd, wr \in BOOLEAN :
         \/ \E data \in RegisterBodies : Register(data, rd, wr)
         \/ \E data \in PartialBodies : Register(data, rd, wr)
         \/ Register(<<>>, rd, wr)

\* logins for the email that registration may have given an account
LoginRegistered ==
    /\ Idle
    /\ \E email \in {UnknownEmail, ""},
          password \in {AdminPassword, "12345678", ""} :
         /\ Login(email, password, TRUE, TRUE, TRUE)
         /\ Cardinality(tokens') <= 2 * MaxLogins

\* registration, and logins with what was registered
NextRegister == RegisterRequest \/ LoginRegistered \/ Return

SpecRegister == InitAuth /\ [][NextRegister]_vars

\* the administrator gives an account another role, in the users table
\* itself: no route of either service writes the column
ChangeRole(email, role) ==
    /\ Idle
    /\ email \in DOMAIN users
    /\ users[email].role # role
    /\ users' = [users EXCEPT ![email].role = role]
    /\ UNCHANGED <<sessions, registry, redis_client, tokens, uuids, now, last,
                   wrongRun, revoked, mintedFor, REDIS_DB, registered,
                   failures, inflight,
                   lockedOut, reachable>>

RoleChange == \E role \in {"admin", "driver"} : ChangeRole(DriverEmail, role)

\* a login of the account whose role is changed
LoginDriver ==
    /\ Idle
    /\ Login(DriverEmail, AdminPassword, TRUE, TRUE, TRUE)
    /\ Cardinality(tokens') <= 2 * MaxLogins

\* role-gated requests of both services before and after a change of role
NextRole ==
    \/ LoginDriver
    \/ RoleChange
    \/ ListUsersRequest
    \/ CustomerRequest
    \/ Return

SpecRole == InitAuth /\ [][NextRole]_vars

\* start-up of the two services under the settings of REDIS_DB, the
\* registry answering the ping of both
InitCluster ==
    /\ users = SeedUsers
    /\ sessions = {}
    /\ registry = <<>>
    /\ redis_client = [svc \in Services |-> TRUE]
    /\ tokens = {}
    /\ uuids = 3
    /\ now = 0
    /\ last = NoResponse
    /\ wrongRun = [e \in Emails |-> 0]
    /\ revoked = <<>>
    /\ mintedFor = <<>>
    /\ REDIS_DB \in 0..MaxRedisDb
    /\ registered = [e \in Emails |-> <<>>]
    /\ failures = [e \in Emails |-> 0]
    /\ inflight = [w \in Workers |-> NoCall]
    /\ lockedOut = {}
    /\ reachable = TRUE

LoginAdmin ==
    /\ Idle
    /\ Login(AdminEmail, AdminPassword, TRUE, TRUE, TRUE)
    /\ Cardinality(tokens') <= 2 * MaxLogins

\* logout in the user service, requests to the customer service
NextCluster ==
    \/ LoginAdmin
    \/ LogoutRequest
    \/ CustomerRequest
    \/ Tick
    \/ Return

SpecCluster == InitCluster /\ [][NextCluster]_vars

\* one user logs in, logs out and logs in again
LoginAgain ==
    /\ Idle
    /\ Login(AdminEmail, AdminPassword, TRUE, TRUE, TRUE)

\* logins and logouts of one user, and the tokens presented afterwards
NextRelogin ==
    \/ LoginAgain
    \/ LogoutRequest
    \/ ValidateRequest
    \/ Tick
    \/ Return

SpecRelogin == InitAuth /\ [][NextRelogin]_vars

\* the calls of the workers: logins for one account with the right and a
\* wrong password, logins for another account, registrations of a new email
WorkerStep ==
    \E w \in Workers :
        \/ \E password \in Passwords :
              BeginAuthenticate(w, AdminEmail, password)
        \/ BeginAuthenticate(w, DriverEmail, AdminPassword)
        \/ \E rd \in BOOLEAN : AuthenticateSelect(w, rd)
        \/ \E wr \in BOOLEAN : AuthenticateUpdate(w, wr)
        \/ BeginCreate(w, UnknownEmail, AdminPassword, "driver")
        \/ \E rd \in BOOLEAN : CreateSelect(w, rd)
        \/ \E wr \in BOOLEAN : CreateInsert(w, wr)
        \/ EndCall(w)

NextWorkers == WorkerStep

SpecWorkers == InitAuth /\ [][NextWorkers]_vars

\* the two services started while the Redis server was in one of its two
\* states: the ping of lines 59-73 (UserMS) and 65-80 (CustomerMS) gives a
\* handle when the server answers and leaves redis_client = None otherwise
InitOutage ==
    /\ users = SeedUsers
    /\ sessions = {}
    /\ registry = <<>>
    /\ reachable \in BOOLEAN
    /\ redis_client = [svc \in Services |-> reachable]
    /\ tokens = {}
    /\ uuids = 3
    /\ now = 0
    /\ last = NoResponse
    /\ wrongRun = [e \in Emails |-> 0]
    /\ revoked = <<>>
    /\ mintedFor = <<>>
    /\ REDIS_DB = 0
    /\ registered = [e \in Emails |-> <<>>]
    /\ failures = [e \in Emails |-> 0]
    /\ inflight = [w \in Workers |-> NoCall]
    /\ lockedOut = {}

\* the Redis server stops answering; its keys are kept
RegistryFails ==
    /\ Idle
    /\ reachable
    /\ reachable' = FALSE
    /\ UNCHANGED <<users, sessions, registry, redis_client, tokens, uuids,
                   now, last, wrongRun, revoked, mintedFor, REDIS_DB,
                   registered, failures, inflight, lockedOut>>

\* the Redis server answers again
RegistryRecovers ==
    /\ Idle
    /\ ~reachable
    /\ reachable' = TRUE
    /\ UNCHANGED <<users, sessions, registry, redis_client, tokens, uuids,
                   now, last, wrongRun, revoked, mintedFor, REDIS_DB,
                   registered, failures, inflight, lockedOut>>

\* a service is started again: the module-level code runs once more and
\* redis_client is set from the ping
StartService(svc) ==
    /\ Idle
    /\ redis_client' = [redis_client EXCEPT ![svc] = reachable]
    /\ UNCHANGED <<users, sessions, registry, tokens, uuids, now, last,
                   wrongRun, revoked, mintedFor, REDIS_DB, registered,
                   failures, inflight, lockedOut, reachable>>

Restart == \E svc \in Services : StartService(svc)

\* a GET that service svc sends for cred succeeds exactly when the server
\* answers
GetAnswers(svc, cred, rok) ==
    (BlocklistReached(cred) /\ redis_client[svc]) => (rok = reachable)

LogoutDuringOutage ==
    /\ Idle
    /\ \E cred \in Credentials, rok, wok \in BOOLEAN :
         /\ GetAnswers("user", cred, rok)
         /\ Logout(cred, rok, wok)
         /\ (last'.invoked /\ redis_client["user"]) => (wok = reachable)

ValidateDuringOutage ==
    /\ Idle
    /\ \E cred \in Credentials, rok \in BOOLEAN :
         /\ GetAnswers("user", cred, rok)
         /\ ValidateToken(cred, rok)

CustomerDuringOutage ==
    /\ Idle
    /\ \E op \in CustomerOps, cred \in Credentials, rok \in BOOLEAN,
          hs \in {200, 500} :
         /\ GetAnswers("customer", cred, rok)
         /\ CustomerOp(op, cred, rok, hs)

\* an outage of the registry that begins and ends while the services run
\* and are started again
NextOutage ==
    \/ LoginAdmin
    \/ LogoutDuringOutage
    \/ ValidateDuringOutage
    \/ CustomerDuringOutage
    \/ RegistryFails
    \/ RegistryRecovers
    \/ Restart
    \/ Tick
    \/ Return

SpecOutage == InitOutage /\ [][NextOutage]_vars

\* wrong-password logins for one account served side by side, the store
\* answering every query
GuessStep ==
    \E w \in Workers :
        \/ \E password \in Passwords \ {AdminPassword} :
              BeginAuthenticate(w, AdminEmail, password)
        \/ AuthenticateSelectCounted(w, TRUE)
        \/ AuthenticateUpdate(w, TRUE)
        \/ EndCall(w)

NextGuess == GuessStep

SpecGuess == InitAuth /\ [][NextGuess]_vars

\* logins one after the other with the store answering every query
LoginStoreUp ==
    /\ Idle
    /\ \E email \in {AdminEmail, FormerEmail}, password \in Passwords :
         /\ Login(email, password, TRUE, TRUE, TRUE)
         /\ Cardinality(tokens') <= 2 * MaxLogins

NextCount == LoginStoreUp \/ Tick \/ Return

SpecCount == InitAuth /\ [][NextCount]_vars

\* ------------------------------------------------------------- properties
\* what the last request was, in terms of its inputs and the row it read
IsLogin == last.op = "login" /\ last.email # "" /\ last.password # ""

ReadUser == IsLogin /\ last.row # <<>>

PasswordMatches == check_password_hash(last.row[1].password_hash, last.password)

\* the row read carried a lock that was still running when the call was made
LockedAtCall ==
    last.row[1].locked_until # NULL /\ last.at < last.row[1].locked_until

\* the row read carried a lock that had run out when the call was made
LockExpiredAtCall ==
    last.row[1].locked_until # NULL /\ last.at >= last.row[1].locked_until

\* C1: after exactly MAX_LOGIN_ATTEMPTS consecutive wrong-password attempts
\* on an active account that started with login_attempts = 0 and no lock, the
\* next attempt, unless it is made after the lock has run out, is answered
\* 423 and never 200, whatever password it carries (the store answering the
\* queries of these calls; a failing UPDATE is the subject of C4).
C1_LockoutAfterThreshold ==
    (ReadUser /\ last.runBefore = MAX_LOGIN_ATTEMPTS /\ ~LockExpiredAtCall)
        => last.status = 423

C1_Witness ==
    /\ ReadUser
    /\ last.runBefore = MAX_LOGIN_ATTEMPTS
    /\ LockedAtCall
    /\ PasswordMatches
    /\ last.status = 423

\* C2: each of the first MAX_LOGIN_ATTEMPTS wrong-password attempts of a run
\* (the store answering) is answered 401; the stored lock is NULL while the stored counter is below
\* the threshold, and the attempt that brings the counter to the threshold
\* stores locked_until = time of the attempt + ACCOUNT_LOCKOUT_DURATION.
C2_ThresholdBoundary ==
    (IsLogin /\ last.run \in 1..MAX_LOGIN_ATTEMPTS) =>
        /\ last.status = 401
        /\ users[last.email].login_attempts = last.run
        /\ users[last.email].login_attempts < MAX_LOGIN_ATTEMPTS
              => users[last.email].locked_until = NULL
        /\ last.run = MAX_LOGIN_ATTEMPTS
              => users[last.email].locked_until
                    = last.at + ACCOUNT_LOCKOUT_DURATION

C2_Witness ==
    /\ IsLogin
    /\ last.run = MAX_LOGIN_ATTEMPTS
    /\ last.status = 401
    /\ users[last.email].locked_until = last.at + ACCOUNT_LOCKOUT_DURATION

\* C3: a login with the correct password for an active account whose lock has
\* run out (time of the call >= locked_until) is answered 200 and leaves
\* login_attempts = 0 and locked_until = NULL, the store answering.
C3_UnlockByTime ==
    (ReadUser /\ last.dbok /\ last.row[1].is_active /\ LockExpiredAtCall
        /\ PasswordMatches)
    =>  /\ last.status = 200
        /\ users[last.email].login_attempts = 0
        /\ users[last.email].locked_until = NULL

C3_Witness ==
    /\ ReadUser /\ last.dbok /\ LockExpiredAtCall /\ PasswordMatches
    /\ last.at = last.row[1].locked_until
    /\ last.status = 200
    /\ users[last.email].login_attempts = 0

\* C4: whenever a login is answered 200 the stored row of the user has
\* login_attempts = 0, locked_until = NULL and last_login stamped with the
\* time of the call, also when the UPDATE of the success path fails.
C4_ResetOnSuccess ==
    (IsLogin /\ last.status = 200) =>
        /\ users[last.email].login_attempts = 0
        /\ users[last.email].locked_until = NULL
        /\ users[last.email].last_login = last.at

\* C10: a login for an email with no row and a login with a wrong password
\* for an existing, active, unlocked account get the same response: status
\* 401, body "Invalid credentials" (the store answering).
C10_SameResponseUnknownOrWrong ==
    (IsLogin /\ last.dbok /\
        \/ last.email \notin DOMAIN users
        \/ /\ last.row # <<>>
           /\ last.row[1].is_active
           /\ ~LockedAtCall
           /\ ~PasswordMatches)
    => (last.status = 401 /\ last.body = "Invalid credentials")

C10_Witness ==
    /\ IsLogin /\ last.dbok
    /\ last.email \notin DOMAIN users
    /\ last.status = 401
    /\ last.body = "Invalid credentials"

\* the protected routes of the user service, and the role-gated routes
UserProtectedOps == {"logout", "profile", "validate", "list_users"}

RoleGatedOps == {"list_users"} \cup CustomerOps

AllowedRoles(op) == IF op = "list_users" THEN ListUsersRoles ELSE CustomerRoles(op)

\* the request presented a token whose jti logout had written to the
\* registry before, and the token had not reached its own expiry
RevokedUnexpired ==
    /\ last.op \in UserProtectedOps
    /\ last.revokedBefore
    /\ last.at < last.cred[1].claims.exp

\* C5 as stated: once logout has revoked a token's jti, every later request
\* to a protected operation of the user service that presents the token
\* before its expiry is answered 401.
C5_RevocationSticks_Original == RevokedUnexpired => last.status = 401

\* C5 as amended: ... is answered 401 whenever the registry lookup of that
\* validation succeeds (when the lookup raises, validation fails open).
C5_RevocationSticks ==
    (RevokedUnexpired /\ last.lookup = "ok") => last.status = 401

C5_Witness ==
    /\ RevokedUnexpired
    /\ last.op = "profile"
    /\ last.lookup = "ok"
    /\ last.at > revoked[last.cred[1].claims.jti]
    /\ last.status = 401

\* C6: whenever logout answers 200, the registry holds an entry for the jti
\* of the presented token.
C6_LogoutRevokes ==
    (last.op = "logout" /\ last.status = 200)
        => RedisGet(last.cred[1].claims.jti)

\* C7: a role-gated operation called with no token is answered 401, and a
\* role-gated operation answers 403 only when the token was validated.
C7_AuthenticationFirst ==
    /\ (last.op \in RoleGatedOps /\ last.cred = <<>>) => last.status = 401
    /\ (last.op \in RoleGatedOps /\ last.status = 403) => last.verdict = "ok"

C7_Witness ==
    /\ last.op \in CustomerOps
    /\ last.cred = <<>>
    /\ last.status = 401

FreshAccessToken ==
    /\ last.op = "validate"
    /\ last.cred # <<>>
    /\ last.cred[1] \in tokens
    /\ last.cred[1].claims.type = "access"
    /\ last.at = last.cred[1].claims.iat
    /\ ~last.revokedBefore

\* C9: the access token minted by a login, validated at once and not
\* revoked, is accepted, and the claims echoed are the user_id, role and
\* email of the user who logged in.
C9_TokenRoundTrip ==
    FreshAccessToken =>
        /\ last.status = 200
        /\ LET u == users[mintedFor[last.cred[1].claims.jti]]
           IN  last.echo = <<[user_id |-> u.user_id, role |-> u.role,
                              email |-> u.email]>>

C9_Witness ==
    /\ FreshAccessToken
    /\ last.status = 200
    /\ last.echo[1].role = "driver"
    /\ last.echo[1].user_id = users[DriverEmail].user_id

\* C11: a login answered 423 has not verified the password and leaves the
\* row of the user as it was read: login_attempts, locked_until and
\* last_login are unchanged, so the lock is neither extended nor shortened.
C11_LockedAttemptInert ==
    (IsLogin /\ last.status = 423) =>
        /\ ~last.verified
        /\ last.row # <<>>
        /\ users[last.email] = last.row[1]

C11_Witness ==
    /\ ReadUser
    /\ last.status = 423
    /\ LockedAtCall
    /\ ~PasswordMatches
    /\ users[last.email] = last.row[1]

\* C12 as stated: a login for an account whose is_active flag is false is
\* answered 403 for every password, also when the account carries an
\* unexpired lock, and leaves the row unchanged.
C12_DisabledAnswer_Original ==
    (ReadUser /\ ~last.row[1].is_active) =>
        /\ last.status = 403
        /\ users[last.email] = last.row[1]

\* C12: a login for an account whose is_active flag is false and whose lock,
\* if any, has expired is answered 403 for every password; with an unexpired
\* lock it is answered 423 (the lock is tested first); in both cases the row
\* is left unchanged and the password is not verified.
C12_DisabledAnswer ==
    (ReadUser /\ ~last.row[1].is_active) =>
        /\ last.status = (IF LockedAtCall THEN 423 ELSE 403)
        /\ ~last.verified
        /\ users[last.email] = last.row[1]

C12_Witness ==
    /\ ReadUser
    /\ ~last.row[1].is_active
    /\ LockExpiredAtCall
    /\ ~PasswordMatches
    /\ last.status = 403
    /\ users[last.email].login_attempts = MAX_LOGIN_ATTEMPTS

\* a logout answered 200 for a token whose jti had an entry in the registry
LogoutOfRevoked ==
    /\ last.op = "logout"
    /\ last.status = 200
    /\ last.entryBefore # NULL

\* the entry a logout answered 200 has left for the token it was sent
EntryOf(cred) == registry[cred[1].claims.jti]

\* C13: a logout for a jti that already has an entry succeeds and leaves the
\* registry with the effect of the first logout alone: the entry is there and
\* disappears at the moment the first entry would have disappeared.
C13_RevokeIdempotent ==
    LogoutOfRevoked =>
        /\ last.cred[1].claims.jti \in DOMAIN registry
        /\ EntryOf(last.cred) = last.entryBefore

\* C14: every entry of the registry runs at least until the token it revokes
\* expires: a token that logout has revoked and that has not expired has its
\* entry, and no entry has an expiry earlier than its token's.
C14_TtlLowerBound ==
    \A t \in tokens :
        /\ (t.claims.jti \in DOMAIN registry) =>
               registry[t.claims.jti] >= t.claims.exp
        /\ (t.claims.jti \in DOMAIN revoked /\ now < t.claims.exp) =>
               RedisGet(t.claims.jti)

C14_Witness ==
    \E t \in tokens :
        /\ t.claims.jti \in DOMAIN revoked
        /\ revoked[t.claims.jti] > t.claims.iat
        /\ now < t.claims.exp
        /\ RedisGet(t.claims.jti)

\* C15: the entry a logout writes lives exactly as long as the token has left
\* to live, so once a token has expired the registry holds no entry for its
\* jti.
C15_EntryGoneAtExpiry ==
    /\ (last.op = "logout" /\ last.status = 200
          /\ last.cred[1].claims.jti \in DOMAIN registry) =>
            EntryOf(last.cred) = last.cred[1].claims.exp
    /\ \A t \in tokens :
          t.claims.exp <= now => t.claims.jti \notin DOMAIN registry

\* C16: in both services a validation whose registry lookup cannot be made,
\* the handle being absent or the GET raising, takes the token for not
\* revoked: a token with a valid signature that has not expired passes
\* @jwt_required() and is not answered 401 or 422, revoked or not.
C16_FailOpen ==
    (last.lookup \in {"absent", "failed"}) =>
        /\ last.verdict = "ok"
        /\ last.status \notin {401, 422}

C16_Witness ==
    /\ last.svc = "customer"
    /\ last.lookup = "failed"
    /\ last.revokedBefore
    /\ last.verdict = "ok"
    /\ last.status = 200

\* the handler sent its SELECT and the store did not answer it
StoreUnreachable ==
    \/ IsLogin /\ ~last.dbok /\ last.row = <<>>
    \/ last.op = "profile" /\ last.invoked /\ ~last.dbok

\* C17: a login or a profile request whose SELECT the store does not answer
\* is answered 500, not 401 and not 404.
C17_OutageIsServerError == StoreUnreachable => last.status = 500

\* the request was turned away for its input: a login without email or
\* password, or a register whose body fails a check
InputError ==
    \/ last.op = "login" /\ (last.email = "" \/ last.password = "")
    \/ last.op = "register" /\
         \/ last.email = "" \/ last.password = "" \/ last.role = ""
         \/ ~EmailPatternMatches(last.email)
         \/ last.role \notin Roles
         \/ Len(last.password) < MIN_PASSWORD_LENGTH

\* C18: a login with a missing or empty email or password, and a register
\* with a missing field, an email that is not of the pattern, a role outside
\* the allowed list or a password of fewer than 8 characters, is answered
\* 400, sends no query to the store and changes nothing.
C18_InputErrorInert ==
    [][InputError' =>
          /\ last'.status = 400
          /\ last'.queries = 0
          /\ UNCHANGED <<users, sessions, registry, tokens, uuids>>]_vars

C18_Witness ==
    /\ last.op = "register"
    /\ last.email = UnknownEmail
    /\ last.role \in Roles
    /\ Len(last.password) = MIN_PASSWORD_LENGTH - 1
    /\ last.status = 400
    /\ UnknownEmail \notin DOMAIN users

\* C20: a register with a well-formed body for an email that has a row is
\* answered 409, creates no user and leaves the table of users, and with it
\* the id, verifier, role and lock state of the existing user, unchanged (the
\* store answering the SELECT of create_user).
C20_DuplicateRegistration ==
    [][(/\ last'.op = "register"
        /\ ~InputError'
        /\ last'.dbok
        /\ last'.email \in DOMAIN users) =>
          /\ last'.status = 409
          /\ last'.user_id = 0
          /\ users' = users
          /\ uuids' = uuids]_vars

C20_Witness ==
    /\ last.op = "register"
    /\ last.status = 409
    /\ last.email = UnknownEmail
    /\ last.password = "12345678"
    /\ users[UnknownEmail].password_hash = generate_password_hash(AdminPassword)
    /\ users[UnknownEmail].login_attempts > 0

\* C19: every login answered 200 has stored exactly one session of the user
\* who logged in and returns the session_id of that session.
C19_OneSessionPerLogin ==
    (last.op = "login" /\ last.status = 200) =>
        /\ last.session_id # 0
        /\ Cardinality({session \in sessions :
                          /\ session.session_id = last.session_id
                          /\ session.user_id = last.row[1].user_id}) = 1

\* the role the users table holds for the account a token was minted for
StoredRole(cred) == users[mintedFor[cred[1].claims.jti]].role

\* C21: in both services a role-gated operation reached with a valid token
\* is decided by the role the users table holds for the user at the time of
\* the request: the handler is invoked when that role is allowed and the
\* answer is 403 when it is not, whatever role the token carries.
C21_LiveRole ==
    (/\ last.op \in RoleGatedOps
     /\ last.verdict = "ok"
     /\ (last.svc = "customer" \/ last.row # <<>>)) =>
        /\ last.invoked <=> (StoredRole(last.cred) \in AllowedRoles(last.op))
        /\ ~last.invoked => last.status = 403

\* C22: whatever REDIS_DB is set to, a request to a role-gated operation of
\* the customer service that presents a token after logout has written its
\* entry, before the token expires and with the lookup answered, is rejected
\* with 401.
C22_ClusterWideRevocation ==
    (/\ last.op \in CustomerOps
     /\ last.revokedBefore
     /\ last.at < last.cred[1].claims.exp
     /\ last.lookup = "ok") =>
        (last.status = 401 /\ ~last.invoked)

\* the kinds of rejection of a presented credential: none presented, expired,
\* signature that does not verify (a malformed token included), revoked
RejectionKinds == {"missing", "expired", "invalid", "revoked"}

\* C23: a protected operation of either service that turns the credential
\* away, whatever the kind of rejection, answers 401 and does not invoke its
\* handler.
C23_UniformRejection ==
    (/\ last.op \in UserProtectedOps \cup CustomerOps
     /\ last.verdict \in RejectionKinds) =>
        (last.status = 401 /\ ~last.invoked)

\* a login for an email that register has created an account for, with the
\* password given at registration, the account having no failed attempt on
\* record
LoginAsRegistered ==
    /\ ReadUser
    /\ registered[last.email] # <<>>
    /\ last.password = registered[last.email][1].password
    /\ last.row[1].login_attempts = 0
    /\ last.row[1].locked_until = NULL

\* C24: after register has answered 201, a login with the same email and
\* password, no failed attempt in between, is answered 200 with an access
\* token and a refresh token of the registered user and a user summary that
\* carries the email and the role given at registration.
C24_RegisterThenLogin ==
    LoginAsRegistered =>
        /\ last.status = 200
        /\ Len(last.issued) = 2
        /\ last.issued[1].claims.type = "access"
        /\ last.issued[2].claims.type = "refresh"
        /\ last.issued[1].claims.sub = registered[last.email][1].user_id
        /\ last.issued[2].claims.sub = registered[last.email][1].user_id
        /\ last.issued[1].claims.email = last.email
        /\ last.issued[1].claims.role = registered[last.email][1].role
        /\ last.row[1].email = last.email
        /\ last.row[1].role = registered[last.email][1].role

C24_Witness ==
    /\ LoginAsRegistered
    /\ last.email = UnknownEmail
    /\ last.password = "12345678"
    /\ registered[UnknownEmail][1].role = "hq"
    /\ last.status = 200
    /\ last.issued # <<>>

\* the request presents an unexpired access token of the service that no
\* logout has written an entry for
UnrevokedAccessToken ==
    /\ last.op \in UserProtectedOps
    /\ last.cred # <<>>
    /\ last.cred[1] \in tokens
    /\ last.cred[1].claims.type = "access"
    /\ last.at < last.cred[1].claims.exp
    /\ ~last.revokedBefore

\* C25: a logout whose SET the registry answers leaves exactly one entry
\* more or renewed, the one keyed by the jti of the presented token, and
\* changes no other entry, no user, no session and no token; a token that
\* was not presented to logout, of the same login or of another login of the
\* same user, is accepted after the logout as before, and the user can log
\* in again.
C25_RevocationPerToken ==
    [][/\ (last'.op = "logout" /\ last'.status = 200 /\ last'.dbok) =>
            /\ DOMAIN registry' = (DOMAIN registry) \cup {last'.cred[1].claims.jti}
            /\ \A j \in (DOMAIN registry) \ {last'.cred[1].claims.jti} :
                   registry'[j] = registry[j]
            /\ UNCHANGED <<users, sessions, tokens, uuids>>
       /\ UnrevokedAccessToken' => last'.verdict = "ok"
       /\ (last'.op = "login" /\ last'.password = AdminPassword
             /\ last'.email = AdminEmail) => last'.status = 200]_vars

C25_Witness ==
    /\ UnrevokedAccessToken
    /\ last.verdict = "ok"
    /\ \E t \in tokens :
          /\ t # last.cred[1]
          /\ t.claims.type = "access"
          /\ t.claims.sub = last.cred[1].claims.sub
          /\ RedisGet(t.claims.jti)
          /\ t.claims.jti < last.cred[1].claims.jti

\* C26: a login whose SELECT the store does not answer is not answered 200,
\* mints no token, creates no session and leaves every row of users, and so
\* every login_attempts and locked_until, as it was.
C26_OutageFailsClosed ==
    [][(IsLogin' /\ ~last'.selected) =>
          /\ last'.status # 200
          /\ last'.issued = <<>>
          /\ UNCHANGED <<users, sessions, tokens>>]_vars

C26_Witness ==
    /\ IsLogin
    /\ ~last.selected
    /\ last.email = AdminEmail
    /\ last.password = AdminPassword
    /\ last.status = 401
    /\ users[AdminEmail].login_attempts = MAX_LOGIN_ATTEMPTS - 1

\* the columns of a row that no statement of the service writes
Identity(u) == <<u.user_id, u.email, u.password_hash, u.role, u.is_active>>

\* the worker whose call took the step carries email e
StepOfCallFor(e) ==
    \E w \in Workers :
        /\ inflight'[w] # inflight[w]
        /\ inflight[w].email = e

\* C27: no step deletes a row of users or changes the id, email, verifier,
\* role or activation flag of a row; a row changes only in a step of an
\* authenticate_user call for the email of that row, and a row appears only
\* in a step of a create_user call for its email, however the calls of the
\* workers interleave.
C27_UserRecordFrame ==
    [][/\ \A e \in DOMAIN users :
             /\ e \in DOMAIN users'
             /\ Identity(users'[e]) = Identity(users[e])
             /\ users'[e] # users[e] =>
                   (StepOfCallFor(e) /\
                    \E w \in Workers : /\ inflight[w].op = "authenticate"
                                       /\ inflight[w].email = e
                                       /\ inflight'[w].pc = "done")
       /\ \A e \in (DOMAIN users') \ DOMAIN users : StepOfCallFor(e)]_vars

C27_Witness ==
    /\ inflight[1].op = "authenticate"
    /\ inflight[1].email = AdminEmail
    /\ inflight[1].status = 401
    /\ users[AdminEmail].login_attempts = 2
    /\ inflight[2].op = "authenticate"
    /\ inflight[2].email = DriverEmail
    /\ inflight[2].status = 200
    /\ users[DriverEmail].last_login # NULL
    /\ users[DriverEmail].login_attempts = 0

\* the create_user calls in flight that have been answered 201 for email e
Answered201(e) ==
    {w \in Workers : /\ inflight[w].op = "create"
                     /\ inflight[w].email = e
                     /\ inflight[w].status = 201}

\* C28: however register requests for one email interleave between the
\* SELECT and the INSERT of create_user, at most one row is ever inserted for
\* the email, none when the email was there from the start, and at most one
\* of the requests is answered 201.
C28_EmailUnique ==
    \A e \in Emails :
        /\ Len(registered[e]) + (IF e \in DOMAIN SeedUsers THEN 1 ELSE 0) <= 1
        /\ Cardinality(Answered201(e)) <= 1
        /\ registered[e] # <<>> =>
              (e \in DOMAIN users /\
               users[e].user_id = registered[e][1].user_id)

C28_Witness ==
    /\ inflight[1].op = "create"
    /\ inflight[1].status = 201
    /\ inflight[2].op = "create"
    /\ inflight[2].email = inflight[1].email
    /\ inflight[2].pc = "insert"

\* C29: in every state, however login requests interleave, locked_until of a
\* user is set exactly when login_attempts of the user is at least
\* MAX_LOGIN_ATTEMPTS, and login_attempts is not negative.
C29_LockCounterConsistent ==
    \A e \in DOMAIN users :
        /\ users[e].login_attempts >= 0
        /\ (users[e].locked_until # NULL) <=>
               (users[e].login_attempts >= MAX_LOGIN_ATTEMPTS)

C29_Witness ==
    /\ users[AdminEmail].locked_until # NULL
    /\ users[AdminEmail].login_attempts = MAX_LOGIN_ATTEMPTS
    /\ \A w \in Workers : /\ inflight[w].op = "authenticate"
                          /\ inflight[w].email = AdminEmail
    /\ inflight[1].status = 401
    /\ inflight[2].pc = "update_success"

\* C30: with requests served one after the other and the store answering,
\* login_attempts of a user is the number of wrong-password attempts that
\* reached check_password_hash since the last login of the user answered 200,
\* or since the row was created; attempts answered 423 or 403 are not counted.
C30_CounterMeaning ==
    \A e \in DOMAIN users : users[e].login_attempts = failures[e]

C30_Witness ==
    /\ IsLogin
    /\ last.email = AdminEmail
    /\ last.status = 401
    /\ users[AdminEmail].last_login # NULL
    /\ failures[AdminEmail] = MAX_LOGIN_ATTEMPTS - 1
    /\ users[AdminEmail].login_attempts = MAX_LOGIN_ATTEMPTS - 1
    /\ users[AdminEmail].locked_until = NULL


\* C31: a wrong-password attempt on an active account whose lock has run out
\* (time of the call >= locked_until, the row still carrying the lock, so no
\* login has succeeded since) does not store a new lock: after the attempt,
\* the store answering, locked_until is NULL.
C31_FreshAllowance ==
    (ReadUser /\ last.dbok /\ last.row[1].is_active /\ LockExpiredAtCall
        /\ ~PasswordMatches)
    => users[last.email].locked_until = NULL


\* worker w sends the UPDATE of a failed attempt in this step
FailedAttemptWrites(w) ==
    /\ inflight[w].op = "authenticate"
    /\ inflight[w].pc = "update_failed"
    /\ inflight'[w].pc = "done"

\* C32: however login requests for one user interleave, the UPDATE of a
\* wrong-password attempt never sets a running lock (locked_until in the
\* future) back to NULL and never lowers login_attempts of a locked user,
\* also when the attempt read the row before the lock was written.
C32_LockNotUndone ==
    [][\A w \in Workers : FailedAttemptWrites(w) =>
          \A e \in DOMAIN users :
              IsLocked(users[e]) =>
                  /\ users'[e].locked_until # NULL
                  /\ users'[e].login_attempts >= users[e].login_attempts]_vars


\* C33: however wrong-password login requests for one unlocked, active user
\* with login_attempts = 0 interleave, the store answering, more than
\* MAX_LOGIN_ATTEMPTS wrong passwords have been verified against the stored
\* verifier only after some request for the user has been answered 423.
C33_GuessBound ==
    \A e \in Emails :
        failures[e] > MAX_LOGIN_ATTEMPTS => e \in lockedOut


\* the request carried a wrong password for a registered, active account,
\* the store answering
WrongPasswordForActive ==
    /\ ReadUser
    /\ last.dbok
    /\ last.row[1].is_active
    /\ ~PasswordMatches

\* the answer the same request gets for an email with no row; such a
\* request writes nothing, so the answer is the same at every position of a
\* sequence
UnknownAnswer == authenticate_user(UnknownEmail, last.password, TRUE, TRUE)

SameAsUnknown ==
    /\ last.status = UnknownAnswer.status
    /\ last.body = UnknownAnswer.body

\* C34 as stated: every response of a sequence of wrong-password logins for
\* a registered, active email is the response the same request gets for an
\* email with no row.
C34_NoEnumeration_Original == WrongPasswordForActive => SameAsUnknown

\* C34 as amended: the responses are the same as for an email with no row
\* as long as no lock is running at the call, that is for the first
\* MAX_LOGIN_ATTEMPTS wrong passwords of a run; a wrong password sent while
\* the lock is running is answered 423, which an email with no row never
\* gets.
C34_NoEnumeration ==
    /\ (WrongPasswordForActive /\ ~LockedAtCall) => SameAsUnknown
    /\ (IsLogin /\ last.run \in 1..MAX_LOGIN_ATTEMPTS) => SameAsUnknown
    /\ (WrongPasswordForActive /\ LockedAtCall) =>
          /\ last.status = 423
          /\ last.body = "Account is temporarily locked"
          /\ ~SameAsUnknown

C34_Witness ==
    /\ WrongPasswordForActive
    /\ last.runBefore = MAX_LOGIN_ATTEMPTS
    /\ LockedAtCall
    /\ last.status = 423
    /\ UnknownAnswer.status = 401


\* the request presented, to a protected operation of either service, an
\* access token that logout had revoked and that had not reached its expiry
RevokedUnexpiredAnywhere ==
    /\ last.op \in UserProtectedOps \cup CustomerOps
    /\ last.revokedBefore
    /\ last.at < last.cred[1].claims.exp

\* C35: whenever the registry is reachable, a request that presents a
\* revoked, unexpired token to a protected operation of either service is
\* answered 401, whether the service was started with the registry
\* reachable or not.
C35_OutageRecovery ==
    (RevokedUnexpiredAnywhere /\ reachable) => last.status = 401

====
